---------------------------- MODULE Spec2Model ----------------------------
(***************************************************************************)
(* State-machine model of PixelArtEditor (src/Project.py): the fields set  *)
(* by __init__, the three GLFW callbacks (mouse_button_callback,           *)
(* cursor_pos_callback, key_callback), get_grid_position and draw_line.    *)
(*                                                                         *)
(* Pointer coordinates are whole pixels.  draw_line's float accumulator    *)
(* err (dx / 2.0, then +/- integers) is held doubled, so that it stays an  *)
(* integer: err2 = 2 * err, and "err < 0" is "err2 < 0".                   *)
(***************************************************************************)
EXTENDS Integers, Sequences, FiniteSets, TLC

VARIABLES
    width, height, grid_size, cols, rows,   \* self.width .. self.rows
    current_color,                          \* self.current_color
    drawing,                                \* self.drawing
    last_grid_x, last_grid_y,               \* <<>> is None, <<v>> is the int v
    eraser_mode,                            \* self.eraser_mode
    canvas,                                 \* self.canvas, indexed <<y, x>>
    error,                                  \* exception raised by a callback
    lastEv,                                 \* history: the last event delivered
    written,                                \* history: indices it wrote
    gesture,                                \* history: press / move / release
    nEvents                                 \* history: events delivered

vars == <<width, height, grid_size, cols, rows, current_color, drawing,
          last_grid_x, last_grid_y, eraser_mode, canvas, error,
          lastEv, written, gesture, nEvents>>

geometry == <<width, height, grid_size, cols, rows>>

----------------------------------------------------------------------------
(* Bounds of the exploration *)

MaxEvents == 3

MaxLineX == 7

MaxLineY == 5

(* Program constants *)

DefaultWidth == 800

DefaultHeight == 600

DefaultGridSize == 20

\* constructor arguments <<width, height, grid_size>> the editor is built with:
\* the default window with cells of 100 pixels (an 8 x 6 grid)
Configs == { <<DefaultWidth, DefaultHeight, 5 * DefaultGridSize>> }

PaletteHeight == 50

SwatchWidth == 50

None == <<>>

Some(v) == <<v>>

White == <<1, 1, 1, 1>>

Black == <<0, 0, 0, 1>>

palette ==
    << <<0, 0, 0, 1>>, <<1, 0, 0, 1>>, <<0, 1, 0, 1>>, <<0, 0, 1, 1>>,
       <<1, 1, 0, 1>>, <<1, 0, 1, 1>>, <<0, 1, 1, 1>>, <<1, 1, 1, 1>> >>

(* Pointer positions delivered by the host, for events in any order.       *)
(* x: left of the window, three columns inside (swatches 0, 2 and the      *)
(* first position after the palette).  y: the top edge, two canvas rows,   *)
(* the first pixel row of the palette strip (height - 50), inside the      *)
(* strip.                                                                  *)
PointerXs == {-30, 10, 130, 410}

PointerYs == {0, 100, 300, 550, 580}

(* Pointer positions of a single drag: also far left of the window (a      *)
(* palette index below -8), right of the window, and the last pixel row    *)
(* of the canvas.                                                          *)
DragXs == PointerXs \cup {-420, 810}

DragYs == PointerYs \cup {549}

Buttons == {"LEFT", "RIGHT"}

ButtonActions == {"PRESS", "RELEASE"}

Keys == {"C", "S", "E"}

KeyActions == {"PRESS", "RELEASE"}

----------------------------------------------------------------------------
(* Python / numpy indexing *)

\* a Python index i into a sequence of length n: negative counts from the end
IndexValid(i, n) == -n <= i /\ i < n

NormIndex(i, n) == IF i < 0 THEN i + n ELSE i

\* palette[i] of a Python list (TLA+ sequences start at 1)
PaletteAt(i) == palette[NormIndex(i, Len(palette)) + 1]

Abs(v) == IF v < 0 THEN -v ELSE v

Max(a, b) == IF a > b THEN a ELSE b

Cells == (0 .. rows - 1) \X (0 .. cols - 1)

\* canvas[y, x] = color
SetCell(cv, y, x, color) ==
    [cv EXCEPT ![<<NormIndex(y, rows), NormIndex(x, cols)>>] = color]

CellValid(y, x) == IndexValid(y, rows) /\ IndexValid(x, cols)

----------------------------------------------------------------------------
(* get_grid_position *)

\* get_grid_position without the flip of y
get_grid_position_NoFlip(x, y) ==
    LET grid_x == x \div grid_size
        grid_y == y \div grid_size
    IN  <<grid_x, grid_y>>

get_grid_position(x, y) ==
    LET flipped_y == height - y
        grid_x    == x \div grid_size
        grid_y    == flipped_y \div grid_size
    IN  <<grid_x, grid_y>>

\* InBounds without the lower bounds
InBounds_NoLower(grid_x, grid_y) == grid_x < cols /\ grid_y < rows

\* "0 <= grid_x < self.cols and 0 <= grid_y < self.rows"
InBounds(grid_x, grid_y) ==
    0 <= grid_x /\ grid_x < cols /\ 0 <= grid_y /\ grid_y < rows

\* the color painted without the eraser
EffectiveColor_IgnoreEraser == current_color

\* "(1, 1, 1, 1) if self.eraser_mode else self.current_color"
EffectiveColor == IF eraser_mode THEN White ELSE current_color


----------------------------------------------------------------------------
(* draw_line: the indices it writes, in order, as <<y, x>> *)

\* XMajorLoop without the final pixel
RECURSIVE XMajorLoop_NoFinalPixel(_, _, _, _, _, _, _, _)
XMajorLoop_NoFinalPixel(x, y, err2, x2, dx, dy, sx, sy) ==
    IF x = x2
    THEN <<>>
    ELSE LET e1   == err2 - 2 * dy
             step == e1 < 0
         IN  << <<y, x>> >> \o
             XMajorLoop_NoFinalPixel(x + sx,
                                     IF step THEN y + sy ELSE y,
                                     IF step THEN e1 + 2 * dx ELSE e1,
                                     x2, dx, dy, sx, sy)

\* the loop "while x != x2" and the final pixel; err2 is twice err
RECURSIVE XMajorLoop(_, _, _, _, _, _, _, _)
XMajorLoop(x, y, err2, x2, dx, dy, sx, sy) ==
    IF x = x2
    THEN << <<y, x>> >>
    ELSE LET e1   == err2 - 2 * dy
             step == e1 < 0
         IN  << <<y, x>> >> \o
             XMajorLoop(x + sx,
                        IF step THEN y + sy ELSE y,
                        IF step THEN e1 + 2 * dx ELSE e1,
                        x2, dx, dy, sx, sy)

\* YMajorLoop that never steps along x
RECURSIVE YMajorLoop_NoSideStep(_, _, _, _, _, _, _, _)
YMajorLoop_NoSideStep(x, y, err2, y2, dx, dy, sx, sy) ==
    IF y = y2
    THEN << <<y, x>> >>
    ELSE << <<y, x>> >> \o
         YMajorLoop_NoSideStep(x, y + sy, err2, y2, dx, dy, sx, sy)

\* the loop "while y != y2" and the final pixel; err2 is twice err
RECURSIVE YMajorLoop(_, _, _, _, _, _, _, _)
YMajorLoop(x, y, err2, y2, dx, dy, sx, sy) ==
    IF y = y2
    THEN << <<y, x>> >>
    ELSE LET e1   == err2 - 2 * dx
             step == e1 < 0
         IN  << <<y, x>> >> \o
             YMajorLoop(IF step THEN x + sx ELSE x,
                        y + sy,
                        IF step THEN e1 + 2 * dy ELSE e1,
                        y2, dx, dy, sx, sy)

\* SwapEndpoints without the swap
SwapEndpoints_NoSwap(x1, y1, x2, y2) == <<x1, y1, x2, y2>>

\* "if y1 > y2: swap": the endpoints as <<x1, y1, x2, y2>> after the swap
SwapEndpoints(x1, y1, x2, y2) ==
    IF y1 > y2 THEN <<x2, y2, x1, y1>> ELSE <<x1, y1, x2, y2>>

draw_line_cells(px1, py1, px2, py2) ==
    LET p  == SwapEndpoints(px1, py1, px2, py2)
        x1 == p[1]
        y1 == p[2]
        x2 == p[3]
        y2 == p[4]
        dx == Abs(x2 - x1)
        dy == Abs(y2 - y1)
        sx == IF x1 < x2 THEN 1 ELSE -1
        sy == IF y1 < y2 THEN 1 ELSE -1
    IN  IF dx > dy
        THEN XMajorLoop(x1, y1, dx, x2, dx, dy, sx, sy)
        ELSE YMajorLoop(x1, y1, dy, y2, dx, dy, sx, sy)

\* the writes of a sequence of indices, in order, up to the first index numpy
\* rejects (IndexError)
RECURSIVE ValidPrefix(_)
ValidPrefix(cells) ==
    IF cells = <<>> \/ ~CellValid(cells[1][1], cells[1][2])
    THEN <<>>
    ELSE <<cells[1]>> \o ValidPrefix(Tail(cells))

RECURSIVE WriteAll(_, _, _)
WriteAll(cv, cells, color) ==
    IF cells = <<>>
    THEN cv
    ELSE WriteAll(SetCell(cv, cells[1][1], cells[1][2], color), Tail(cells), color)

draw_line(cv, x1, y1, x2, y2, color) ==
    WriteAll(cv, ValidPrefix(draw_line_cells(x1, y1, x2, y2)), color)

draw_line_raises(x1, y1, x2, y2) ==
    LET cells == draw_line_cells(x1, y1, x2, y2)
    IN  Len(ValidPrefix(cells)) < Len(cells)


----------------------------------------------------------------------------
(* History variables: the kind of the event delivered last, and the press  *)
(* / move / release sequence in progress with its pointer positions        *)

NoEvent == [kind |-> "init", button |-> "-", action |-> "-", key |-> "-"]

MouseEv(button, action) ==
    [kind |-> "mouse", button |-> button, action |-> action, key |-> "-"]

CursorEv ==
    [kind |-> "cursor", button |-> "-", action |-> "-", key |-> "-"]

KeyEv(key, action) ==
    [kind |-> "key", button |-> "-", action |-> action, key |-> key]

NoGesture == [stage |-> 0, ax |-> 0, ay |-> 0, bx |-> 0, by |-> 0]

\* stage 1: left press at (ax, ay); stage 2: then one move to (bx, by);
\* stage 3: then a left release; any other event starts over
GestureAfter(ev, x, y) ==
    IF ev.kind = "mouse" /\ ev.button = "LEFT" /\ ev.action = "PRESS"
    THEN [stage |-> 1, ax |-> x, ay |-> y, bx |-> 0, by |-> 0]
    ELSE IF ev.kind = "cursor" /\ gesture.stage = 1
    THEN [gesture EXCEPT !.stage = 2, !.bx = x, !.by = y]
    ELSE IF ev.kind = "mouse" /\ ev.button = "LEFT" /\ ev.action = "RELEASE"
            /\ gesture.stage = 2
    THEN [gesture EXCEPT !.stage = 3]
    ELSE NoGesture

Deliver(ev, x, y) ==
    /\ lastEv' = ev
    /\ gesture' = GestureAfter(ev, x, y)
    /\ nEvents' = nEvents + 1

----------------------------------------------------------------------------
(* __init__ *)

\* the editor constructed with a configuration of the set S
InitOf(S) ==
    /\ \E cfg \in S :
           /\ width = cfg[1]
           /\ height = cfg[2]
           /\ grid_size = cfg[3]
           /\ cols = cfg[1] \div cfg[3]
           /\ rows = cfg[2] \div cfg[3]
    /\ current_color = Black
    /\ drawing = FALSE
    /\ last_grid_x = None
    /\ last_grid_y = None
    /\ eraser_mode = FALSE
    /\ canvas = [c \in Cells |-> White]
    /\ error = "none"
    /\ lastEv = NoEvent
    /\ written = <<>>
    /\ gesture = NoGesture
    /\ nEvents = 0

Init == InitOf(Configs)

----------------------------------------------------------------------------
(* mouse_button_callback *)

\* a palette click only below the window
ClickedPalette_BelowWindow(y) == y > height

\* "if y > self.height - 50"
ClickedPalette(y) == y > height - PaletteHeight

\* the palette branch of a press
SelectColor(x) ==
    LET color_index == x \div SwatchWidth
    IN  /\ IF color_index < Len(palette)
           THEN IF IndexValid(color_index, Len(palette))
                THEN current_color' = PaletteAt(color_index) /\ error' = error
                ELSE error' = "IndexError" /\ current_color' = current_color
           ELSE UNCHANGED <<current_color, error>>
        /\ written' = <<>>
        /\ UNCHANGED <<drawing, last_grid_x, last_grid_y, canvas>>

\* the canvas branch of a press
StartDrawing(x, y) ==
    LET g      == get_grid_position(x, y)
        grid_x == g[1]
        grid_y == g[2]
    IN  /\ drawing' = TRUE
        /\ IF InBounds(grid_x, grid_y)
           THEN /\ canvas' = SetCell(canvas, grid_y, grid_x, EffectiveColor)
                /\ last_grid_x' = Some(grid_x)
                /\ last_grid_y' = Some(grid_y)
                /\ written' = << <<grid_y, grid_x>> >>
           ELSE /\ written' = <<>>
                /\ UNCHANGED <<canvas, last_grid_x, last_grid_y>>
        /\ UNCHANGED <<current_color, error>>

\* EndDrawing that forgets the last cell's reset
EndDrawing_KeepLast ==
    /\ drawing' = FALSE
    /\ written' = <<>>
    /\ UNCHANGED <<last_grid_x, last_grid_y, current_color, canvas, error>>

\* EndDrawing that resets the color too
EndDrawing_ResetColor ==
    /\ drawing' = FALSE
    /\ last_grid_x' = None
    /\ last_grid_y' = None
    /\ current_color' = Black
    /\ written' = <<>>
    /\ UNCHANGED <<canvas, error>>

\* the release branch
EndDrawing ==
    /\ drawing' = FALSE
    /\ last_grid_x' = None
    /\ last_grid_y' = None
    /\ written' = <<>>
    /\ UNCHANGED <<current_color, canvas, error>>

\* mouse_button_callback that ends the drag only for a release over the canvas
mouse_button_callback_ReleaseOverCanvas(button, action, x, y) ==
    /\ IF button = "LEFT"
       THEN IF action = "PRESS"
            THEN IF ClickedPalette(y) THEN SelectColor(x) ELSE StartDrawing(x, y)
            ELSE IF action = "RELEASE" /\ ~ClickedPalette(y)
            THEN EndDrawing
            ELSE /\ written' = <<>>
                 /\ UNCHANGED <<current_color, drawing, last_grid_x, last_grid_y,
                                canvas, error>>
       ELSE /\ written' = <<>>
            /\ UNCHANGED <<current_color, drawing, last_grid_x, last_grid_y,
                           canvas, error>>
    /\ UNCHANGED <<geometry, eraser_mode>>

mouse_button_callback(button, action, x, y) ==
    /\ IF button = "LEFT"
       THEN IF action = "PRESS"
            THEN IF ClickedPalette(y) THEN SelectColor(x) ELSE StartDrawing(x, y)
            ELSE IF action = "RELEASE"
            THEN EndDrawing
            ELSE /\ written' = <<>>
                 /\ UNCHANGED <<current_color, drawing, last_grid_x, last_grid_y,
                                canvas, error>>
       ELSE /\ written' = <<>>
            /\ UNCHANGED <<current_color, drawing, last_grid_x, last_grid_y,
                           canvas, error>>
    /\ UNCHANGED <<geometry, eraser_mode>>

----------------------------------------------------------------------------
(* cursor_pos_callback *)

\* CursorOverCanvas with the press handler's boundary
CursorOverCanvas_Inclusive(y) == y <= height - PaletteHeight

\* "y < self.height - 50"
CursorOverCanvas(y) == y < height - PaletteHeight

\* cursor_pos_callback that paints the cell under the pointer, without the line
cursor_pos_callback_NoLine(x, y) ==
    LET g      == get_grid_position(x, y)
        grid_x == g[1]
        grid_y == g[2]
    IN  /\ IF /\ drawing
              /\ CursorOverCanvas(y)
              /\ InBounds(grid_x, grid_y)
              /\ last_grid_x # None
              /\ last_grid_y # None
           THEN /\ canvas' = SetCell(canvas, grid_y, grid_x, EffectiveColor)
                /\ written' = << <<grid_y, grid_x>> >>
                /\ error' = error
                /\ last_grid_x' = Some(grid_x)
                /\ last_grid_y' = Some(grid_y)
           ELSE /\ written' = <<>>
                /\ UNCHANGED <<canvas, error, last_grid_x, last_grid_y>>
        /\ UNCHANGED <<geometry, current_color, drawing, eraser_mode>>

cursor_pos_callback(x, y) ==
    LET g      == get_grid_position(x, y)
        grid_x == g[1]
        grid_y == g[2]
    IN  /\ IF /\ drawing
              /\ CursorOverCanvas(y)
              /\ InBounds(grid_x, grid_y)
              /\ last_grid_x # None
              /\ last_grid_y # None
           THEN LET x1     == last_grid_x[1]
                    y1     == last_grid_y[1]
                    raises == draw_line_raises(x1, y1, grid_x, grid_y)
                IN  /\ canvas' = draw_line(canvas, x1, y1, grid_x, grid_y, EffectiveColor)
                    /\ written' = ValidPrefix(draw_line_cells(x1, y1, grid_x, grid_y))
                    /\ error' = IF raises THEN "IndexError" ELSE error
                    /\ last_grid_x' = IF raises THEN last_grid_x ELSE Some(grid_x)
                    /\ last_grid_y' = IF raises THEN last_grid_y ELSE Some(grid_y)
           ELSE /\ written' = <<>>
                /\ UNCHANGED <<canvas, error, last_grid_x, last_grid_y>>
        /\ UNCHANGED <<geometry, current_color, drawing, eraser_mode>>

----------------------------------------------------------------------------
(* key_callback *)

\* key_callback whose E key switches the eraser on, never off
key_callback_EraserOn(key, action) ==
    /\ IF action = "PRESS" /\ key = "C"
       THEN canvas' = [c \in Cells |-> White]
       ELSE canvas' = canvas
    /\ IF action = "PRESS" /\ key = "E"
       THEN eraser_mode' = TRUE
       ELSE eraser_mode' = eraser_mode
    /\ written' = <<>>
    /\ UNCHANGED <<geometry, current_color, drawing, last_grid_x, last_grid_y, error>>

\* key_callback whose C key fills the canvas with 0
key_callback_FillZero(key, action) ==
    /\ IF action = "PRESS" /\ key = "C"
       THEN canvas' = [c \in Cells |-> <<0, 0, 0, 0>>]
       ELSE canvas' = canvas
    /\ IF action = "PRESS" /\ key = "E"
       THEN eraser_mode' = ~eraser_mode
       ELSE eraser_mode' = eraser_mode
    /\ written' = <<>>
    /\ UNCHANGED <<geometry, current_color, drawing, last_grid_x, last_grid_y, error>>

key_callback(key, action) ==
    /\ IF action = "PRESS" /\ key = "C"
       THEN canvas' = [c \in Cells |-> White]
       ELSE canvas' = canvas
    /\ IF action = "PRESS" /\ key = "E"
       THEN eraser_mode' = ~eraser_mode
       ELSE eraser_mode' = eraser_mode
    /\ written' = <<>>
    /\ UNCHANGED <<geometry, current_color, drawing, last_grid_x, last_grid_y, error>>

----------------------------------------------------------------------------
(* The host delivers events one at a time, until a callback raises *)

Running == error = "none" /\ nEvents < MaxEvents

MouseButtonLeft ==
    \E action \in ButtonActions, x \in PointerXs, y \in PointerYs :
        /\ Running
        /\ mouse_button_callback("LEFT", action, x, y)
        /\ Deliver(MouseEv("LEFT", action), x, y)

\* the position is not read for another button
MouseButtonOther ==
    \E action \in ButtonActions :
        /\ Running
        /\ mouse_button_callback("RIGHT", action, 0, 0)
        /\ Deliver(MouseEv("RIGHT", action), 0, 0)

CursorPos ==
    \E x \in PointerXs, y \in PointerYs :
        /\ Running
        /\ cursor_pos_callback(x, y)
        /\ Deliver(CursorEv, x, y)

Key ==
    \E key \in Keys, action \in KeyActions :
        /\ Running
        /\ key_callback(key, action)
        /\ Deliver(KeyEv(key, action), 0, 0)

Next == MouseButtonLeft \/ MouseButtonOther \/ CursorPos \/ Key

Spec == Init /\ [][Next]_vars


----------------------------------------------------------------------------
(* Drags between the cells of the rectangle (0 .. MaxLineX) x              *)
(* (0 .. MaxLineY): a press on one cell, then one move to another.  Each   *)
(* cell is pointed at by the top-left pixel of its square.                 *)

LineCols == 0 .. MaxLineX

LineRows == 0 .. MaxLineY

CellPixelX(col) == col * grid_size

CellPixelY(row) == height - (row * grid_size + grid_size - 1)

LinePress ==
    \E col \in LineCols, row \in LineRows :
        /\ error = "none"
        /\ lastEv.kind = "init"
        /\ mouse_button_callback("LEFT", "PRESS", CellPixelX(col), CellPixelY(row))
        /\ Deliver(MouseEv("LEFT", "PRESS"), CellPixelX(col), CellPixelY(row))

LineMove ==
    \E col \in LineCols, row \in LineRows :
        /\ error = "none"
        /\ gesture.stage = 1
        /\ cursor_pos_callback(CellPixelX(col), CellPixelY(row))
        /\ Deliver(CursorEv, CellPixelX(col), CellPixelY(row))

LineNext == LinePress \/ LineMove

LineSpec == Init /\ [][LineNext]_vars

----------------------------------------------------------------------------
(* One drag after an optional eraser toggle and an optional palette click: *)
(* [key E] [press in the strip] press, move, release                       *)

DragToggle ==
    /\ error = "none"
    /\ lastEv.kind = "init"
    /\ key_callback("E", "PRESS")
    /\ Deliver(KeyEv("E", "PRESS"), 0, 0)

DragPick ==
    \E x \in DragXs, y \in {v \in DragYs : ClickedPalette(v)} :
        /\ error = "none"
        /\ lastEv.kind \in {"init", "key"}
        /\ mouse_button_callback("LEFT", "PRESS", x, y)
        /\ Deliver(MouseEv("LEFT", "PRESS"), x, y)

DragPress ==
    \E x \in DragXs, y \in {v \in DragYs : ~ClickedPalette(v)} :
        /\ error = "none"
        /\ \/ lastEv.kind \in {"init", "key"}
           \/ gesture.stage = 1 /\ ClickedPalette(gesture.ay)
        /\ mouse_button_callback("LEFT", "PRESS", x, y)
        /\ Deliver(MouseEv("LEFT", "PRESS"), x, y)

DragMove ==
    \E x \in DragXs, y \in DragYs :
        /\ error = "none"
        /\ gesture.stage = 1
        /\ cursor_pos_callback(x, y)
        /\ Deliver(CursorEv, x, y)

DragRelease ==
    \E x \in DragXs, y \in DragYs :
        /\ error = "none"
        /\ gesture.stage = 2
        /\ mouse_button_callback("LEFT", "RELEASE", x, y)
        /\ Deliver(MouseEv("LEFT", "RELEASE"), x, y)

DragNext == DragToggle \/ DragPick \/ DragPress \/ DragMove \/ DragRelease

DragSpec == Init /\ [][DragNext]_vars


----------------------------------------------------------------------------
(* Vocabulary of the properties.  The cell of a pointer position and the   *)
(* palette strip are stated here as the design states them (col =          *)
(* floor(x / S), row = floor((H - y) / S); the strip is the bottom 50      *)
(* pixel rows, the rows draw_palette fills), not through the handlers.     *)

ColOf(x) == x \div grid_size

RowOf(y) == (height - y) \div grid_size

CellInGrid(x, y) ==
    0 <= ColOf(x) /\ ColOf(x) < cols /\ 0 <= RowOf(y) /\ RowOf(y) < rows

InPaletteStrip(y) == y >= height - PaletteHeight

InCanvasArea(y) == y < height - PaletteHeight

Painted(x, y) == [canvas EXCEPT ![<<RowOf(y), ColOf(x)>>] = EffectiveColor]

Blank == [c \in Cells |-> White]

SeqToSet(seq) == {seq[i] : i \in 1 .. Len(seq)}

PressAt(x, y) ==
    /\ Deliver(MouseEv("LEFT", "PRESS"), x, y)
    /\ mouse_button_callback("LEFT", "PRESS", x, y)

ReleaseAt(x, y) ==
    /\ Deliver(MouseEv("LEFT", "RELEASE"), x, y)
    /\ mouse_button_callback("LEFT", "RELEASE", x, y)

MoveTo(x, y) ==
    /\ Deliver(CursorEv, x, y)
    /\ cursor_pos_callback(x, y)

\* the press / move / release sequence went from a canvas position on cell A
\* to a canvas position on cell B
GestureOnCanvas ==
    /\ InCanvasArea(gesture.ay) /\ CellInGrid(gesture.ax, gesture.ay)
    /\ InCanvasArea(gesture.by) /\ CellInGrid(gesture.bx, gesture.by)

GestureLine ==
    draw_line_cells(ColOf(gesture.ax), RowOf(gesture.ay),
                    ColOf(gesture.bx), RowOf(gesture.by))

GestureDx == Abs(ColOf(gesture.bx) - ColOf(gesture.ax))

GestureDy == Abs(RowOf(gesture.by) - RowOf(gesture.ay))

----------------------------------------------------------------------------
(* C1: after press on cell A, one move to cell B and release (both         *)
(* positions in the canvas area, both cells in the grid), every cell of    *)
(* the line from A to B, the endpoints included, holds the effective       *)
(* color, and the editor is no longer drawing.                             *)
C1_DragPaintsLine ==
    (gesture.stage = 3 /\ GestureOnCanvas) =>
        /\ ~drawing
        /\ canvas[<<RowOf(gesture.ay), ColOf(gesture.ax)>>] = EffectiveColor
        /\ canvas[<<RowOf(gesture.by), ColOf(gesture.bx)>>] = EffectiveColor
        /\ \A i \in 1 .. Len(GestureLine) : canvas[GestureLine[i]] = EffectiveColor

\* a finished drag in green between two cells that are not neighbours
C1_Witness ==
    /\ gesture.stage = 3 /\ GestureOnCanvas
    /\ GestureDx > 1 /\ GestureDy > 1 /\ GestureDx # GestureDy
    /\ current_color = palette[3] /\ ~eraser_mode
    /\ ~drawing
    /\ \A i \in 1 .. Len(GestureLine) : canvas[GestureLine[i]] = palette[3]

(* C2: while drawing with no last cell, a move to a canvas position on a   *)
(* cell of the grid paints that cell with the effective color and makes    *)
(* it the last cell.                                                       *)
C2_FirstMovePaints ==
    [][lastEv' = CursorEv =>
       \A x \in PointerXs, y \in PointerYs :
          ( /\ drawing /\ last_grid_x = None /\ last_grid_y = None
            /\ InCanvasArea(y) /\ CellInGrid(x, y)
            /\ MoveTo(x, y) )
          => /\ canvas' = Painted(x, y)
             /\ last_grid_x' = Some(ColOf(x))
             /\ last_grid_y' = Some(RowOf(y))]_vars

(* C3, as claimed: the last cell is unset if and only if the editor is     *)
(* not drawing.                                                            *)
C3_LastCellIffDrawing ==
    (last_grid_x = None /\ last_grid_y = None) <=> ~drawing

(* C3, as amended: when the editor is not drawing, the last cell is unset  *)
(* (a drag begun on a position outside the grid is drawing with no last    *)
(* cell).                                                                  *)
C3_NotDrawingNoLastCell ==
    ~drawing => (last_grid_x = None /\ last_grid_y = None)

\* a release has ended a drag that painted
C3_Witness ==
    /\ lastEv = MouseEv("LEFT", "RELEASE")
    /\ canvas # Blank
    /\ ~drawing /\ last_grid_x = None /\ last_grid_y = None

(* C4: a left press in the palette strip whose index floor(x / 50) is no   *)
(* palette position (at least the palette length, or negative) changes     *)
(* nothing of the editor.  Stated for the positions below the strip's      *)
(* first pixel row, which the press handler takes for the strip too.       *)
C4_InvalidPaletteIndexNoOp ==
    [][lastEv' = MouseEv("LEFT", "PRESS") =>
       \A x \in PointerXs, y \in PointerYs :
          ( /\ InPaletteStrip(y) /\ y > height - PaletteHeight
            /\ (x \div SwatchWidth >= Len(palette) \/ x \div SwatchWidth < 0)
            /\ PressAt(x, y) )
          => UNCHANGED <<current_color, eraser_mode, drawing, last_grid_x,
                         last_grid_y, canvas, error>>]_vars


(* C5: draw_line between two cells of the grid writes exactly              *)
(* max(|dx|, |dy|) + 1 cells, no cell twice, both endpoints among them,    *)
(* and consecutive cells differ by at most 1 in each coordinate.           *)
C5_LineShape ==
    (gesture.stage = 2 /\ GestureOnCanvas) =>
        LET n == Max(GestureDx, GestureDy) + 1
        IN  /\ Len(written) = n
            /\ Cardinality(SeqToSet(written)) = n
            /\ <<RowOf(gesture.ay), ColOf(gesture.ax)>> \in SeqToSet(written)
            /\ <<RowOf(gesture.by), ColOf(gesture.bx)>> \in SeqToSet(written)
            /\ \A i \in 1 .. Len(written) - 1 :
                  /\ Abs(written[i + 1][1] - written[i][1]) <= 1
                  /\ Abs(written[i + 1][2] - written[i][2]) <= 1

\* the line from (0, 0) to (4, 2) was written: 5 cells
C5_Witness ==
    /\ gesture.stage = 2 /\ GestureOnCanvas
    /\ ColOf(gesture.ax) = 0 /\ RowOf(gesture.ay) = 0
    /\ ColOf(gesture.bx) = 4 /\ RowOf(gesture.by) = 2
    /\ Len(written) = 5
    /\ written[1] = <<0, 0>> /\ written[5] = <<2, 4>>

(* C6: the cells draw_line writes from P to Q are the cells it writes      *)
(* from Q to P.                                                            *)
C6_LineSymmetric ==
    (gesture.stage = 2 /\ GestureOnCanvas) =>
        SeqToSet(written) =
            SeqToSet(draw_line_cells(ColOf(gesture.bx), RowOf(gesture.by),
                                     ColOf(gesture.ax), RowOf(gesture.ay)))

\* a line written downwards (the endpoints are swapped), neither straight nor
\* diagonal
C6_Witness ==
    /\ gesture.stage = 2 /\ GestureOnCanvas
    /\ RowOf(gesture.ay) > RowOf(gesture.by)
    /\ GestureDx > GestureDy /\ GestureDy > 0
    /\ Len(written) = GestureDx + 1
    /\ SeqToSet(written) =
           SeqToSet(draw_line_cells(ColOf(gesture.bx), RowOf(gesture.by),
                                    ColOf(gesture.ax), RowOf(gesture.ay)))

(* C7: a left press at a canvas position on a cell of the grid sets that   *)
(* cell to the effective color and no other cell, starts drawing and       *)
(* makes the cell the last cell.                                           *)
C7_PressPaintsOneCell ==
    [][lastEv' = MouseEv("LEFT", "PRESS") =>
       \A x \in PointerXs, y \in PointerYs :
          (InCanvasArea(y) /\ CellInGrid(x, y) /\ PressAt(x, y))
          => /\ canvas' = Painted(x, y)
             /\ drawing'
             /\ last_grid_x' = Some(ColOf(x))
             /\ last_grid_y' = Some(RowOf(y))]_vars

\* a press has painted its cell in a color picked from the palette, and
\* nothing else
C7_Witness ==
    /\ gesture.stage = 1
    /\ InCanvasArea(gesture.ay) /\ CellInGrid(gesture.ax, gesture.ay)
    /\ current_color # Black /\ current_color # White /\ ~eraser_mode
    /\ canvas = [Blank EXCEPT ![<<RowOf(gesture.ay), ColOf(gesture.ax)>>] = current_color]
    /\ drawing
    /\ last_grid_x = Some(ColOf(gesture.ax))
    /\ last_grid_y = Some(RowOf(gesture.ay))

(* C8: a pointer move changes nothing of the editor when the editor is     *)
(* not drawing, or the pointer is over the palette strip, or the position  *)
(* is on no cell of the grid; during a drag the editor stays drawing.      *)
C8_MoveNoOp ==
    [][lastEv' = CursorEv =>
       \A x \in PointerXs, y \in PointerYs :
          ( /\ (~drawing \/ InPaletteStrip(y) \/ ~CellInGrid(x, y))
            /\ MoveTo(x, y) )
          => UNCHANGED <<canvas, drawing, last_grid_x, last_grid_y,
                         current_color, eraser_mode>>]_vars

\* during a drag with a last cell, a move over the strip or off the grid has
\* left the one painted cell and the drag as they were
C8_Witness ==
    /\ gesture.stage = 2
    /\ InCanvasArea(gesture.ay) /\ CellInGrid(gesture.ax, gesture.ay)
    /\ (InPaletteStrip(gesture.by) \/ ~CellInGrid(gesture.bx, gesture.by))
    /\ drawing
    /\ last_grid_x = Some(ColOf(gesture.ax))
    /\ last_grid_y = Some(RowOf(gesture.ay))
    /\ canvas = [Blank EXCEPT ![<<RowOf(gesture.ay), ColOf(gesture.ax)>>] = Black]

(* C9: a left release, at any pointer position and in any state, ends      *)
(* drawing, unsets the last cell and leaves the grid unchanged.            *)
C9_ReleaseEndsDrag ==
    [][lastEv' = MouseEv("LEFT", "RELEASE") =>
       \A x \in PointerXs, y \in PointerYs :
          ReleaseAt(x, y)
          => /\ ~drawing'
             /\ last_grid_x' = None
             /\ last_grid_y' = None
             /\ canvas' = canvas]_vars

\* a press, a move that drew a line, and the release
C9_Witness ==
    /\ gesture.stage = 3 /\ GestureOnCanvas
    /\ Max(GestureDx, GestureDy) > 1
    /\ ~drawing /\ last_grid_x = None /\ last_grid_y = None
    /\ \A i \in 1 .. Len(GestureLine) : canvas[GestureLine[i]] = Black

(* C10, as claimed: when a release ends a drag, current_color,             *)
(* eraser_mode, drawing and the last cell have their initial values, and   *)
(* the grid is unchanged.                                                  *)
C10_ReleaseResetsAll ==
    [][lastEv' = MouseEv("LEFT", "RELEASE") =>
       \A x \in PointerXs, y \in PointerYs :
          (drawing /\ ReleaseAt(x, y))
          => /\ current_color' = Black
             /\ eraser_mode' = FALSE
             /\ drawing' = FALSE
             /\ last_grid_x' = None
             /\ last_grid_y' = None
             /\ canvas' = canvas]_vars

(* C10, as amended: when a release ends a drag, drawing and the last cell  *)
(* have their initial values, and current_color, eraser_mode and the grid  *)
(* are unchanged.                                                          *)
C10_ReleaseResetsDragOnly ==
    [][lastEv' = MouseEv("LEFT", "RELEASE") =>
       \A x \in PointerXs, y \in PointerYs :
          (drawing /\ ReleaseAt(x, y))
          => /\ drawing' = FALSE
             /\ last_grid_x' = None
             /\ last_grid_y' = None
             /\ UNCHANGED <<current_color, eraser_mode, canvas>>]_vars

\* a release has ended a drag made in a picked color: the color is kept
C10_Witness ==
    /\ lastEv = MouseEv("LEFT", "RELEASE")
    /\ current_color # Black /\ current_color # White
    /\ \E c \in Cells : canvas[c] = current_color
    /\ ~drawing /\ last_grid_x = None /\ last_grid_y = None

(* C11: a left press in the palette strip at x with 0 <= floor(x / 50) <   *)
(* palette length sets current_color to that palette entry, starts no      *)
(* drag and leaves the grid unchanged.                                     *)
C11_PalettePressSelects ==
    [][lastEv' = MouseEv("LEFT", "PRESS") =>
       \A x \in PointerXs, y \in PointerYs :
          ( /\ InPaletteStrip(y)
            /\ 0 <= x \div SwatchWidth /\ x \div SwatchWidth < Len(palette)
            /\ PressAt(x, y) )
          => /\ current_color' = palette[x \div SwatchWidth + 1]
             /\ UNCHANGED <<drawing, last_grid_x, last_grid_y, canvas>>]_vars

(* C12: every cell written by a press or by a drag move holds, after the   *)
(* event, the background color if the eraser was on at the event and       *)
(* current_color otherwise.                                                *)
C12_WritesEffectiveColor ==
    [][(lastEv' = MouseEv("LEFT", "PRESS") \/ lastEv' = CursorEv) =>
       /\ \A i \in 1 .. Len(written') :
             canvas'[written'[i]] = IF eraser_mode THEN White ELSE current_color
       /\ \A c \in Cells :
             canvas'[c] # canvas[c] =>
                 canvas'[c] = IF eraser_mode THEN White ELSE current_color]_vars

\* with the eraser switched on during a drag, a move has written a line in the
\* background color over the cell the press painted
C12_Witness ==
    /\ lastEv = CursorEv
    /\ eraser_mode /\ current_color # White
    /\ Len(written) > 1
    /\ canvas = Blank

(* C13: a press of the E key flips eraser_mode and changes nothing else    *)
(* of the editor, also during a drag; so two presses in a row restore the  *)
(* state.                                                                  *)
C13_ToggleFlipsEraserOnly ==
    [][lastEv' = KeyEv("E", "PRESS") =>
       /\ eraser_mode' = ~eraser_mode
       /\ UNCHANGED <<canvas, current_color, drawing, last_grid_x, last_grid_y,
                      error>>]_vars

\* the eraser was switched on during a drag that had painted a cell
C13_Witness ==
    /\ lastEv = KeyEv("E", "PRESS")
    /\ eraser_mode
    /\ drawing /\ last_grid_x # None /\ last_grid_y # None
    /\ canvas[<<last_grid_y[1], last_grid_x[1]>>] = Black

(* C14: a press of the C key sets every cell to the background color,      *)
(* whatever the grid held, and leaves current_color, eraser_mode, drawing  *)
(* and the last cell unchanged; so a second press changes nothing.         *)
C14_ClearWhitensAll ==
    [][lastEv' = KeyEv("C", "PRESS") =>
       /\ \A c \in Cells : canvas'[c] = White
       /\ UNCHANGED <<current_color, eraser_mode, drawing, last_grid_x,
                      last_grid_y>>]_vars

\* the canvas was cleared during a drag whose line had been painted
C14_Witness ==
    /\ lastEv = KeyEv("C", "PRESS")
    /\ nEvents = 3
    /\ drawing /\ last_grid_x # None /\ last_grid_y # None
    /\ canvas = Blank

(* C15: during a drag, a pointer move to a canvas position that maps to    *)
(* the cell last_grid_x, last_grid_y leaves the canvas unchanged, also     *)
(* when eraser_mode or current_color changed since that cell was painted.  *)
C15_SameCellMoveNoOp ==
    [][lastEv' = CursorEv =>
       \A x \in PointerXs, y \in PointerYs :
          ( /\ drawing
            /\ InCanvasArea(y)
            /\ CellInGrid(ColOf(x), RowOf(y))
            /\ last_grid_x = Some(ColOf(x))
            /\ last_grid_y = Some(RowOf(y))
            /\ MoveTo(x, y) )
          => canvas' = canvas]_vars

(* C16: the press handler and the move handler classify every pointer y    *)
(* the same way: a y that is no palette click for the press handler is     *)
(* over the canvas for the move handler, and conversely, including         *)
(* y = height - 50.                                                        *)
C16_SameClassification ==
    \A y \in PointerYs : (~ClickedPalette(y)) <=> CursorOverCanvas(y)

-----------------------------------------------------------------------------
(* run: each turn of the loop renders a frame (draw_canvas, draw_grid,     *)
(* draw_palette), then poll_events delivers the pending events to the      *)
(* callbacks.  The editor is constructed with any geometry, __init__       *)
(* checking none.                                                          *)

\* geometries with no columns, no rows or neither, and the well-formed ones
StartConfigs == Configs \cup { <<10, 10, 20>>, <<100, 10, 20>>, <<10, 100, 20>> }

FrameEv == [kind |-> "frame", button |-> "-", action |-> "-", key |-> "-"]

\* "x / self.cols" and "y / self.rows" of the first grid line
draw_grid_raises == cols = 0 \/ rows = 0

\* the rendering part of one turn of the loop
Frame ==
    /\ Running
    /\ error' = IF draw_grid_raises THEN "ZeroDivisionError" ELSE error
    /\ written' = <<>>
    /\ UNCHANGED <<geometry, current_color, drawing, last_grid_x, last_grid_y,
                   eraser_mode, canvas>>
    /\ Deliver(FrameEv, 0, 0)

\* poll_events runs after the first frame was rendered
PollEvents == lastEv # NoEvent /\ Next

StartNext == Frame \/ PollEvents

StartSpec == InitOf(StartConfigs) /\ [][StartNext]_vars

(* C17: an editor constructed with a geometry of zero columns or zero rows *)
(* never renders a frame: the loop of run is not reached with an empty     *)
(* grid.                                                                   *)
C17_NoFrameOnEmptyGrid ==
    lastEv = FrameEv => cols > 0 /\ rows > 0

-----------------------------------------------------------------------------
Sgn(n) == IF n > 0 THEN 1 ELSE IF n < 0 THEN -1 ELSE 0

\* the cells <<row, col>> at the equal steps from cell (c1, r1) to cell (c2, r2)
EqualSteps(c1, r1, c2, r2) ==
    { <<r1 + k * Sgn(r2 - r1), c1 + k * Sgn(c2 - c1)>> :
          k \in 0 .. Max(Abs(c2 - c1), Abs(r2 - r1)) }

(* C18: for endpoints on one row, on one column or on an exact diagonal    *)
(* draw_line writes exactly the cells at equal steps between the           *)
(* endpoints and no others: from (0,0) to (5,0) the six cells (0,0) ..     *)
(* (5,0), from (0,0) to (3,3) the four cells (0,0), (1,1), (2,2), (3,3).   *)
C18_StraightLineCells ==
    (gesture.stage = 2 /\ GestureOnCanvas) =>
        LET c1 == ColOf(gesture.ax)
            r1 == RowOf(gesture.ay)
            c2 == ColOf(gesture.bx)
            r2 == RowOf(gesture.by)
        IN  /\ (GestureDx = 0 \/ GestureDy = 0 \/ GestureDx = GestureDy) =>
                  /\ SeqToSet(written) = EqualSteps(c1, r1, c2, r2)
                  /\ \A c \in Cells :
                        canvas[c] # White <=> c \in EqualSteps(c1, r1, c2, r2)
            /\ (c1 = 0 /\ r1 = 0 /\ c2 = 5 /\ r2 = 0) =>
                  SeqToSet(written) = { <<0, 0>>, <<0, 1>>, <<0, 2>>, <<0, 3>>,
                                        <<0, 4>>, <<0, 5>> }
            /\ (c1 = 0 /\ r1 = 0 /\ c2 = 3 /\ r2 = 3) =>
                  SeqToSet(written) = { <<0, 0>>, <<1, 1>>, <<2, 2>>, <<3, 3>> }

\* the diagonal from (0, 0) to (3, 3) was written
C18_Witness ==
    /\ gesture.stage = 2 /\ GestureOnCanvas
    /\ ColOf(gesture.ax) = 0 /\ RowOf(gesture.ay) = 0
    /\ ColOf(gesture.bx) = 3 /\ RowOf(gesture.by) = 3
    /\ written = << <<0, 0>>, <<1, 1>>, <<2, 2>>, <<3, 3>> >>
    /\ canvas[<<2, 2>>] = Black

-----------------------------------------------------------------------------
Min(a, b) == IF a <= b THEN a ELSE b

Between(v, a, b) == Min(a, b) <= v /\ v <= Max(a, b)

(* C19: in every reachable state the last cell, when set, is a cell of the *)
(* grid (0 <= col < cols, 0 <= row < rows); so draw_line is only called    *)
(* with both endpoints in the grid, it raises no IndexError, and every     *)
(* index it writes is an index of the grid, not a negative one that wraps, *)
(* inside the bounding rectangle of its endpoints.                         *)
C19_LastCellInGrid ==
    [][/\ (last_grid_x' # None \/ last_grid_y' # None) =>
             /\ last_grid_x' # None /\ last_grid_y' # None
             /\ 0 <= last_grid_x'[1] /\ last_grid_x'[1] < cols
             /\ 0 <= last_grid_y'[1] /\ last_grid_y'[1] < rows
       /\ \A i \in 1 .. Len(written') :
             /\ 0 <= written'[i][1] /\ written'[i][1] < rows
             /\ 0 <= written'[i][2] /\ written'[i][2] < cols
       /\ lastEv' = CursorEv => error' = "none"
       /\ (lastEv' = CursorEv /\ written' # <<>>) =>
             /\ last_grid_x # None /\ last_grid_y # None
             /\ \A i \in 1 .. Len(written') :
                   /\ Between(written'[i][1], last_grid_y[1], last_grid_y'[1])
                   /\ Between(written'[i][2], last_grid_x[1], last_grid_x'[1])]_vars

\* a drag move has written a line of five cells ending on another row
C19_Witness ==
    /\ lastEv = CursorEv
    /\ Len(written) = 5
    /\ written[1][1] # written[5][1]
    /\ last_grid_x # None /\ last_grid_y # None
    /\ <<last_grid_y[1], last_grid_x[1]>> \in {written[1], written[5]}

-----------------------------------------------------------------------------
(* The editor of the default arguments: 800 x 600, grid_size 20, a canvas  *)
(* of 30 rows of 40 cells.  Rows 0 and 1 are the pixel rows 561 .. 600,    *)
(* row 2 the pixel rows 541 .. 560.                                        *)

RefConfigs == { <<DefaultWidth, DefaultHeight, DefaultGridSize>> }

RefXs == {10, 130}

RefYs == {300, 549, 550, 570, 599}

RefMouseButtonLeft ==
    \E action \in ButtonActions, x \in RefXs, y \in RefYs :
        /\ Running
        /\ mouse_button_callback("LEFT", action, x, y)
        /\ Deliver(MouseEv("LEFT", action), x, y)

RefCursorPos ==
    \E x \in RefXs, y \in RefYs :
        /\ Running
        /\ cursor_pos_callback(x, y)
        /\ Deliver(CursorEv, x, y)

RefNext == RefMouseButtonLeft \/ MouseButtonOther \/ RefCursorPos \/ Key

RefSpec == InitOf(RefConfigs) /\ [][RefNext]_vars

(* C20: with the 800 x 600 window and grid_size 20, the cells of rows 0    *)
(* and 1, which lie under the palette strip, are white in every reachable  *)
(* state.                                                                  *)
C20_StripRowsStayBlank ==
    \A col \in 0 .. cols - 1, row \in {0, 1} : canvas[<<row, col>>] = White

\* a drag that started on the strip's boundary row y = 550, painted a cell of
\* row 2, then moved to the bottom of the window
C20_Witness ==
    /\ gesture.stage = 2
    /\ gesture.ay = 550 /\ gesture.by = 599
    /\ drawing
    /\ canvas[<<2, ColOf(gesture.ax)>>] = Black

=============================================================================
